---- MODULE Spec2Model ----
(***************************************************************************)
(* A model of mujoco_py/mjviewer.py: the MjViewer render loop, the key     *)
(* callbacks that glfw dispatches from poll_events() inside it, the        *)
(* off-screen pixel read-back, the save_video worker process, and the      *)
(* mouse callbacks of MjViewerBasic.                                       *)
(*                                                                         *)
(* The main thread is at one of these places (pc):                         *)
(*   "caller"  in user code, outside render()                              *)
(*   "loop"    inside render(), about to run render_inner_loop             *)
(*   "poll"    inside glfw.poll_events() of MjViewerBasic.render(), where  *)
(*             the key and mouse callbacks run                             *)
(*   "join"    inside key_callback, blocked in _video_process.join()       *)
(*   "raised"  render() was left by an exception                           *)
(***************************************************************************)
EXTENDS Integers, Sequences, FiniteSets, TLC

\* ------------------------------------------------------------------ bounds
MaxNcam == 2          \* model cameras: sim.model.ncam ranges over 0..MaxNcam
MaxVideos == 2        \* recordings started in a session
MaxImages == 2        \* screenshots taken in a session
MaxRecFrames == 3     \* video frames enqueued in a session
MaxCallFrames == 3    \* frames rendered by one render() call in the paused loop
MaxRight == 3         \* RIGHT releases in a session
MaxInc == 2           \* largest increment of _loop_count per call, in frames
MaxNet == 1080        \* |F releases - S releases|
MaxGeoms == 2         \* geoms of the model: sim.model.ngeom ranges over 0..MaxGeoms
MaxAlpha == 2         \* a geom's alpha in the model file is one of 0/MaxAlpha .. 1
MaxToggles == 2       \* R releases in a session; M releases in a session
MaxPos == 2           \* the cursor is at most MaxPos/PosUnit pixels from the origin
MaxScale == 2         \* framebuffer pixels per window pixel: 1..MaxScale

\* -------------------------------------------------------- program constants
\* Python floats are IEEE-754 doubles: the powers of two they hold are
\* 2^MinExp (the least subnormal) .. 2^MaxExp.
MinExp == -1074
MaxExp == 1023
\* "%07d" pads to this width.
PadWidth == 7
\* _loop_count is kept in units of 1/LoopUnit frame.
LoopUnit == 2
\* cursor coordinates (floats in glfw) are kept in units of 1/PosUnit pixel.
PosUnit == 2

VARIABLES
  pc, branch,                       \* where the main thread is; which loop of render()
  paused, advance,                  \* _paused, _advance_by_one_step
  loop_count, render_every_frame,   \* _loop_count (in 1/LoopUnit), _render_every_frame
  run_speed,                        \* _run_speed, a float that is 0, a power of two, or inf
  hide_overlay, user_overlay,       \* _hide_overlay, _user_overlay
  overlay, markers, cam,            \* the window context: _overlay, _markers, cam
  ncam, display_all_text,           \* _ncam, display_all_text
  offctx,                           \* sim._render_context_offscreen (NoCtx when None)
  record_video, video_idx,          \* _record_video, _video_idx
  image_idx,                        \* _image_idx
  queue,                            \* _video_queue
  worker,                           \* _video_process: its place and its arguments
  files,                            \* video files on disk, by path
  \* history variables, read by the properties only
  recs,                             \* per recording: its path and the frames enqueued
  shots,                            \* the paths screenshots were written to
  nenq,                             \* frames enqueued so far (the next frame's id)
  callFrames,                       \* frames rendered by the current render() call
  startPaused, startREF,            \* _paused, _render_every_frame at the call's start
  startCount,                       \* _loop_count when the unpaused loop was entered
  retVia,                           \* how the last render() call ended
  rightCount, stepCount,            \* RIGHT releases; paused calls ended by a step
  absorbed,                         \* RIGHT releases that found a step still pending
  net,                              \* F releases minus S releases
  lastKey, prevVal,                 \* the key released last since the last frame was
                                    \* drawn; the value it acts on, before the release
  lastFrame,                        \* the frame rendered last (window or off-screen)
  winFrame,                         \* the window frame rendered last
  readRec,                          \* the last _read_pixels_as_in_window call
  \* geoms of sim.model
  transparent, show_mocap,          \* _transparent, _show_mocap
  geom_alpha,                       \* sim.model.geom_rgba[:, 3], geom by geom
  geom_mocap,                       \* whether the geom's body is a mocap body
  extras,                           \* sim.extras: alpha stored while mocap is hidden
  alpha0,                           \* history: geom_alpha when the viewer was made
  rCount, mCount,                   \* history: R releases, M releases
  \* the mouse
  button_left_pressed, button_right_pressed,
  last_mouse_x, last_mouse_y,       \* _last_mouse_x, _last_mouse_y
  scale,                            \* _scale
  camReq,                           \* history: the move_camera call of the last mouse event
  mouseEvt                          \* history: the last mouse event and what it found

ctlVars  == <<pc, branch>>
playVars == <<paused, advance, loop_count, render_every_frame, run_speed>>
viewVars == <<hide_overlay, user_overlay, overlay, markers, cam, ncam, display_all_text>>
vidVars  == <<record_video, video_idx, queue, worker, files>>
capVars  == <<image_idx, offctx>>
callHist == <<callFrames, startPaused, startREF, startCount, retVia>>
keyHist  == <<lastKey, prevVal>>
cntHist  == <<rightCount, stepCount, absorbed, net>>
vidHist  == <<recs, nenq>>
frmHist  == <<lastFrame, winFrame>>
alphaVars == <<transparent, show_mocap, geom_alpha, geom_mocap, extras, alpha0,
               rCount, mCount>>
mouseVars == <<button_left_pressed, button_right_pressed, last_mouse_x, last_mouse_y,
               scale, camReq, mouseEvt>>

vars == <<ctlVars, playVars, viewVars, vidVars, capVars, callHist, keyHist,
          cntHist, vidHist, shots, frmHist, readRec, alphaVars, mouseVars>>

\* ------------------------------------------------------------------ values
NoPath == <<>>
GridPos == {"TOPLEFT", "TOPRIGHT", "BOTTOMLEFT", "BOTTOMRIGHT"}
EmptyOverlay == [g \in GridPos |-> <<>>]
FreeCam == [fixedcamid |-> -1, type |-> "FREE"]
\* sim._render_context_offscreen is None.
NoCtx == [exists |-> FALSE, markers |-> <<>>, overlay |-> EmptyOverlay, cam |-> FreeCam]
\* What travels on the video queue: a frame (its number) or the None sentinel.
FrameItem(n) == [kind |-> "frame", id |-> n]
NoneItem == [kind |-> "None", id |-> -1]

\* A float that is zero, a power of two 2^exp, or infinity.
FZero == [kind |-> "zero", exp |-> 0]
FInf == [kind |-> "inf", exp |-> 0]
FPow(e) == [kind |-> "fin", exp |-> e]

\* An alpha value as an exact number: (m / MaxAlpha) * 5^e, with e = 0 when m = 0.
AZero == [m |-> 0, e |-> 0]
Alpha(m) == [m |-> m, e |-> 0]
Alphas == {Alpha(m) : m \in 0 .. MaxAlpha}
\* sim.extras holds nothing for the geom yet.
NoExtra == [set |-> FALSE, val |-> AZero]
\* No move_camera call; no mouse event yet.
NoReq == [action |-> "none", dx |-> 0, dy |-> 0]
NoEvt == [kind |-> "none", x |-> 0, y |-> 0, shift |-> FALSE, lx |-> 0, ly |-> 0]


\* ------------------------------------------------------------ pure helpers
\* x / 2.0 on a double: the least subnormal halves to 0.0 (round to even).
Half(x) ==
  IF x.kind = "fin" THEN (IF x.exp - 1 < MinExp THEN FZero ELSE FPow(x.exp - 1)) ELSE x

\* x * 2.0 on a double: the largest power of two doubles to inf.
Twice(x) ==
  IF x.kind = "fin" THEN (IF x.exp + 1 > MaxExp THEN FInf ELSE FPow(x.exp + 1)) ELSE x

\* The decimal digits of n, most significant first.
RECURSIVE Digits(_)
Digits(n) == IF n < 10 THEN <<n>> ELSE Append(Digits(n \div 10), n % 10)

\* Left-pad with zeros to PadWidth.
RECURSIVE ZeroPad(_)
ZeroPad(s) == IF Len(s) >= PadWidth THEN s ELSE ZeroPad(<<0>> \o s)

\* "%07d" % n
Format07d(n) == ZeroPad(Digits(n))

\* self._video_path % idx, self._image_path % idx
VideoPath(idx) == <<"/tmp/video_", Format07d(idx), ".mp4">>
ImagePath(idx) == <<"/tmp/frame_", Format07d(idx), ".png">>

\* Queue.put and Queue.get: first in, first out.
QueuePutLifo(q, x) == <<x>> \o q
QueuePut(q, x) == Append(q, x)

\* add_overlay(gridpos, text1, text2): one more line at gridpos.
AddOverlay(ov, g, line) == [ov EXCEPT ![g] = Append(@, line)]

\* _create_full_overlay: the menu (with display_all_text), the custom key
\* help and the status lines.  A token stands for a group of lines.
CreateFullOverlay(ov, all) ==
  LET a == IF all
           THEN AddOverlay(AddOverlay(AddOverlay(ov, "TOPLEFT", "menu"),
                                      "BOTTOMLEFT", "fps"), "BOTTOMRIGHT", "step")
           ELSE ov
  IN AddOverlay(AddOverlay(a, "TOPLEFT", "keys"), "TOPRIGHT", "status")

\* The overlay render_inner_loop builds before it renders (lines 224-228).
BuildOverlayAlways(hide, user, all) == CreateFullOverlay(user, all)
BuildOverlay(hide, user, all) ==
  IF hide THEN EmptyOverlay ELSE CreateFullOverlay(user, all)

\* What a render context draws: its markers and overlay, seen from its camera.
Frame(target, ctx, hide) ==
  [target |-> target, overlay |-> ctx.overlay, markers |-> ctx.markers,
   cam |-> ctx.cam, hidden |-> hide]

\* The off-screen context sim.render() creates when there is none yet.
NewOffscreen ==
  [exists |-> TRUE, markers |-> <<>>, overlay |-> EmptyOverlay, cam |-> FreeCam]

\* The state of the off-screen context after the restore (lines 285-288).
RestoreNoCam(during, saved) ==
  [exists |-> TRUE, markers |-> saved.markers, overlay |-> saved.overlay,
   cam |-> during.cam]
Restore(during, saved) ==
  [exists |-> TRUE, markers |-> saved.markers, overlay |-> saved.overlay,
   cam |-> saved.cam]

\* _read_pixels_as_in_window: save the off-screen context's state, copy the
\* window's into it, render, restore.  win is the window context.
ReadPixels(off, win, hide) ==
  LET ctx0 == IF off.exists THEN off ELSE NewOffscreen
      saved == [markers |-> ctx0.markers, overlay |-> ctx0.overlay, cam |-> ctx0.cam]
      during == [exists |-> TRUE, markers |-> win.markers, overlay |-> win.overlay,
                 cam |-> win.cam]
  IN [valid |-> TRUE,
      before |-> off,
      during |-> during,
      img |-> Frame("offscreen", during, hide),
      after |-> Restore(during, saved),
      winBefore |-> win,
      winAfter |-> [markers |-> win.markers, overlay |-> win.overlay, cam |-> win.cam]]

NoRead ==
  [valid |-> FALSE, before |-> NoCtx, during |-> NewOffscreen,
   img |-> Frame("offscreen", NewOffscreen, FALSE), after |-> NewOffscreen,
   winBefore |-> [markers |-> <<>>, overlay |-> EmptyOverlay, cam |-> FreeCam],
   winAfter |-> [markers |-> <<>>, overlay |-> EmptyOverlay, cam |-> FreeCam]]

Window == [markers |-> markers, overlay |-> overlay, cam |-> cam]

\* x / 5.0 and x * 5.0 on an exact number.
Div5(a) == IF a.m = 0 THEN a ELSE [a EXCEPT !.e = @ - 1]
Mul5(a) == IF a.m = 0 THEN a ELSE [a EXCEPT !.e = @ + 1]

\* int(x) of Python, for x = n / d with d > 0: truncation toward zero.
IntTrunc(n, d) == IF n >= 0 THEN n \div d ELSE -((-n) \div d)
\* int(self._scale * pos) for a cursor coordinate of pos / PosUnit pixels.
Scaled(sc, pos) == IntTrunc(sc * pos, PosUnit)

\* Lines 76-81: which camera action a cursor move asks for.
MouseActionLeftFirst(left, right, shift) ==
  IF left THEN (IF shift THEN "ROTATE_H" ELSE "ROTATE_V")
  ELSE IF right THEN (IF shift THEN "MOVE_H" ELSE "MOVE_V")
  ELSE "ZOOM"
MouseAction(left, right, shift) ==
  IF right THEN (IF shift THEN "MOVE_H" ELSE "MOVE_V")
  ELSE IF left THEN (IF shift THEN "ROTATE_H" ELSE "ROTATE_V")
  ELSE "ZOOM"

\* ------------------------------------------------------------------ inputs
\* Cursor coordinates glfw reports, in units of 1/PosUnit pixel; they are
\* negative when the cursor is dragged out of the window to the left or top.
Positions == -MaxPos .. MaxPos
\* y_offset of a scroll event: one notch up or down.
ScrollOffsets == {-1, 1}
UserOverlays == {EmptyOverlay, [EmptyOverlay EXCEPT !["TOPLEFT"] = <<"user">>]}
UserMarkers == {<<>>, <<"m">>}
OffCtxs ==
  {NoCtx, NewOffscreen,
   [exists |-> TRUE, markers |-> <<"om">>,
    overlay |-> [EmptyOverlay EXCEPT !["TOPRIGHT"] = <<"off">>],
    cam |-> [fixedcamid |-> 0, type |-> "FIXED"]]}
\* timestep * nsubsteps / (_time_per_render * _run_speed), in 1/LoopUnit frame:
\* the measured render time makes it any positive amount.
Incs == 1 .. (MaxInc * LoopUnit)

\* ------------------------------------------------------------------- Init
\* MjViewerBasic.__init__ and MjViewer.__init__.
Init ==
  /\ pc = "caller" /\ branch = "none"
  /\ paused = FALSE /\ advance = FALSE
  /\ loop_count = 0 /\ render_every_frame = FALSE
  /\ run_speed = FPow(0)
  /\ hide_overlay = FALSE /\ user_overlay = EmptyOverlay
  /\ overlay = EmptyOverlay /\ markers = <<>> /\ cam = FreeCam
  /\ ncam \in 0 .. MaxNcam
  /\ display_all_text \in BOOLEAN
  /\ offctx \in OffCtxs
  /\ record_video = FALSE /\ video_idx = 0 /\ image_idx = 0
  /\ queue = <<>>
  /\ worker = [state |-> "none", path |-> NoPath]
  /\ files = [p \in {} |-> [frames |-> <<>>, closed |-> FALSE]]
  /\ recs = <<>> /\ shots = <<>> /\ nenq = 0
  /\ callFrames = 0 /\ startPaused = FALSE /\ startREF = FALSE
  /\ startCount = 0 /\ retVia = "none"
  /\ rightCount = 0 /\ stepCount = 0 /\ absorbed = 0 /\ net = 0
  /\ lastKey = "none" /\ prevVal = FALSE
  /\ lastFrame = Frame("none", NewOffscreen, FALSE)
  /\ winFrame = Frame("none", NewOffscreen, FALSE)
  /\ readRec = NoRead
  /\ transparent = FALSE /\ show_mocap = TRUE
  /\ \E n \in 0 .. MaxGeoms :
       /\ geom_alpha \in [1 .. n -> Alphas]
       /\ geom_mocap \in [1 .. n -> BOOLEAN]
  /\ extras = [g \in DOMAIN geom_alpha |-> NoExtra]
  /\ alpha0 = geom_alpha
  /\ rCount = 0 /\ mCount = 0
  /\ button_left_pressed = FALSE /\ button_right_pressed = FALSE
  /\ last_mouse_x = 0 /\ last_mouse_y = 0
  /\ scale \in 1 .. MaxScale
  /\ camReq = NoReq /\ mouseEvt = NoEvt

\* A model without geoms, shown in a window whose framebuffer has the
\* window's size.
PlainSim == geom_alpha = <<>> /\ scale = 1

\* --------------------------------------------------------------- render()
\* Lines 255-257: markers and overlay are cleared, render() returns.
LeaveRender(via) ==
  /\ markers' = <<>>
  /\ overlay' = EmptyOverlay
  /\ pc' = "caller"
  /\ retVia' = via

\* render() is called with the overlay ov and the markers mk the user has
\* added since the last call (lines 237-251): _user_overlay is taken, and
\* either the paused loop is entered or _loop_count is advanced.  Dividing by
\* _time_per_render * _run_speed raises ZeroDivisionError when _run_speed is
\* 0.0, and adds nothing when it is inf.  _time_per_render is a measured,
\* positive time: it is not kept, and the quotient is the input inc.  (With
\* _run_speed close to 2^MinExp the product already rounds to 0.0 and the
\* quotient to inf; where, depends on the measured time.)
CallRender(ov, mk, inc) ==
  /\ pc = "caller"
  /\ user_overlay' = ov
  /\ callFrames' = 0
  /\ startPaused' = paused
  /\ startREF' = render_every_frame
  /\ IF paused
       THEN /\ branch' = "paused"
            /\ pc' = "loop"
            /\ overlay' = ov /\ markers' = mk
            /\ retVia' = "none"
            /\ UNCHANGED <<loop_count, startCount>>
       ELSE /\ branch' = "unpaused"
            /\ IF run_speed.kind = "zero"
                 THEN /\ pc' = "raised"
                      /\ overlay' = ov /\ markers' = mk
                      /\ retVia' = "ZeroDivisionError"
                      /\ UNCHANGED <<loop_count, startCount>>
                 ELSE LET q == IF run_speed.kind = "inf" THEN 0 ELSE inc
                          lc == IF render_every_frame THEN LoopUnit ELSE loop_count + q
                      IN /\ loop_count' = lc
                         /\ startCount' = lc
                         /\ IF lc > 0
                              THEN /\ pc' = "loop"
                                   /\ overlay' = ov /\ markers' = mk
                                   /\ retVia' = "none"
                              ELSE LeaveRender("count")
  /\ UNCHANGED <<paused, advance, render_every_frame, run_speed, hide_overlay, cam,
                 ncam, display_all_text, vidVars, capVars, keyHist, cntHist,
                 vidHist, shots, frmHist, readRec>>
  /\ UNCHANGED <<alphaVars, mouseVars>>

\* render_inner_loop up to poll_events (lines 222-229 and 58-61): the overlay
\* is rebuilt, the window frame is drawn, and events are polled.
RenderFrame ==
  /\ pc = "loop"
  /\ callFrames < MaxCallFrames
  /\ LET ov == BuildOverlay(hide_overlay, user_overlay, display_all_text)
         f == Frame("window", [markers |-> markers, overlay |-> ov, cam |-> cam],
                    hide_overlay)
     IN /\ overlay' = ov
        /\ lastFrame' = f
        /\ winFrame' = f
  /\ callFrames' = callFrames + 1
  /\ pc' = "poll"
  /\ lastKey' = "none" /\ prevVal' = FALSE
  /\ UNCHANGED <<branch, playVars, hide_overlay, user_overlay, markers, cam, ncam,
                 display_all_text, vidVars, capVars, startPaused, startREF,
                 startCount, retVia, cntHist, vidHist, shots, readRec>>
  /\ UNCHANGED <<alphaVars, mouseVars>>

\* render_inner_loop after poll_events (lines 230-235), then the loop's test
\* (lines 240-244 or 252-254) and, when the loop ends, lines 255-257.
AfterPoll ==
  /\ pc = "poll"
  /\ record_video => nenq < MaxRecFrames
  /\ IF record_video
       THEN LET r == ReadPixels(offctx, Window, hide_overlay)
            IN /\ offctx' = r.after
               /\ readRec' = r
               /\ lastFrame' = r.img
               /\ queue' = QueuePut(queue, FrameItem(nenq))
               /\ recs' = [recs EXCEPT ![Len(recs)].enq = Append(@, nenq)]
               /\ nenq' = nenq + 1
       ELSE UNCHANGED <<offctx, readRec, lastFrame, queue, recs, nenq>>
  /\ IF branch = "paused"
       THEN /\ UNCHANGED <<loop_count>>
            /\ IF advance
                 THEN /\ advance' = FALSE
                      /\ stepCount' = stepCount + 1
                      /\ LeaveRender("step")
                 ELSE /\ UNCHANGED <<advance, stepCount>>
                      /\ IF paused
                           THEN /\ pc' = "loop"
                                /\ UNCHANGED <<markers, overlay, retVia>>
                           ELSE LeaveRender("unpaused")
       ELSE /\ loop_count' = loop_count - LoopUnit
            /\ UNCHANGED <<advance, stepCount>>
            /\ IF loop_count - LoopUnit > 0
                 THEN /\ pc' = "loop"
                      /\ UNCHANGED <<markers, overlay, retVia>>
                 ELSE LeaveRender("count")
  /\ UNCHANGED <<branch, paused, render_every_frame, run_speed, hide_overlay,
                 user_overlay, cam, ncam, display_all_text, record_video, video_idx,
                 worker, files, image_idx, callFrames, startPaused, startREF,
                 startCount, keyHist, rightCount, absorbed, net, shots, winFrame>>
  /\ UNCHANGED <<alphaVars, mouseVars>>

\* ------------------------------------------------------------ key_callback
\* A key release is dispatched by poll_events; the history variables keep the
\* key and the value, before the release, of what the key acts on.
Released(key, before) ==
  /\ pc = "poll"
  /\ lastKey' = key
  /\ prevVal' = before

\* TAB (lines 398-403).
KeyTabOffByOne ==
  /\ Released("TAB", cam)
  /\ LET id == cam.fixedcamid + 1
     IN cam' = IF id > ncam THEN [fixedcamid |-> -1, type |-> "FREE"]
                            ELSE [fixedcamid |-> id, type |-> "FIXED"]
  /\ UNCHANGED <<ctlVars, playVars, hide_overlay, user_overlay, overlay, markers,
                 ncam, display_all_text, vidVars, capVars, callHist, cntHist,
                 vidHist, shots, frmHist, readRec>>
  /\ UNCHANGED <<alphaVars, mouseVars>>
KeyTab ==
  /\ Released("TAB", cam)
  /\ LET id == cam.fixedcamid + 1
     IN cam' = IF id >= ncam THEN [fixedcamid |-> -1, type |-> "FREE"]
                             ELSE [fixedcamid |-> id, type |-> "FIXED"]
  /\ UNCHANGED <<ctlVars, playVars, hide_overlay, user_overlay, overlay, markers,
                 ncam, display_all_text, vidVars, capVars, callHist, cntHist,
                 vidHist, shots, frmHist, readRec>>
  /\ UNCHANGED <<alphaVars, mouseVars>>

\* H (lines 404-405).
KeyH ==
  /\ Released("H", hide_overlay)
  /\ hide_overlay' = ~hide_overlay
  /\ UNCHANGED <<ctlVars, playVars, user_overlay, overlay, markers, cam, ncam,
                 display_all_text, vidVars, capVars, callHist, cntHist, vidHist,
                 shots, frmHist, readRec>>
  /\ UNCHANGED <<alphaVars, mouseVars>>

\* SPACE (lines 406-407).
KeySpace ==
  /\ Released("SPACE", paused)
  /\ paused' = ~paused
  /\ UNCHANGED <<ctlVars, advance, loop_count, render_every_frame, run_speed,
                 viewVars, vidVars, capVars, callHist, cntHist, vidHist, shots,
                 frmHist, readRec>>
  /\ UNCHANGED <<alphaVars, mouseVars>>

\* RIGHT (lines 409-411).
KeyRightNoPause ==
  /\ Released("RIGHT", advance)
  /\ rightCount < MaxRight
  /\ advance' = TRUE
  /\ paused' = paused
  /\ rightCount' = rightCount + 1
  /\ absorbed' = absorbed + (IF advance THEN 1 ELSE 0)
  /\ UNCHANGED <<ctlVars, loop_count, render_every_frame, run_speed, viewVars,
                 vidVars, capVars, callHist, stepCount, net, vidHist, shots,
                 frmHist, readRec>>
  /\ UNCHANGED <<alphaVars, mouseVars>>
KeyRight ==
  /\ Released("RIGHT", advance)
  /\ rightCount < MaxRight
  /\ advance' = TRUE
  /\ paused' = TRUE
  /\ rightCount' = rightCount + 1
  /\ absorbed' = absorbed + (IF advance THEN 1 ELSE 0)
  /\ UNCHANGED <<ctlVars, loop_count, render_every_frame, run_speed, viewVars,
                 vidVars, capVars, callHist, stepCount, net, vidHist, shots,
                 frmHist, readRec>>
  /\ UNCHANGED <<alphaVars, mouseVars>>

\* V, or ESC while recording (lines 412-423), up to the blocking join():
\* starting forks the worker on the path of the current _video_idx; stopping
\* enqueues the None sentinel and waits for the worker.
ToggleRecording ==
  IF ~record_video
    THEN /\ video_idx < MaxVideos
         /\ nenq < MaxRecFrames
         /\ record_video' = TRUE
         /\ worker' = [state |-> "start", path |-> VideoPath(video_idx)]
         /\ recs' = Append(recs, [path |-> VideoPath(video_idx), enq |-> <<>>,
                                  stopped |-> FALSE])
         /\ UNCHANGED <<pc, queue>>
    ELSE /\ record_video' = FALSE
         /\ queue' = QueuePut(queue, NoneItem)
         /\ recs' = [recs EXCEPT ![Len(recs)].stopped = TRUE]
         /\ pc' = "join"
         /\ UNCHANGED worker

KeyV ==
  /\ Released("V", record_video)
  /\ ToggleRecording
  /\ UNCHANGED <<branch, playVars, viewVars, video_idx, files, capVars, callHist,
                 cntHist, nenq, shots, frmHist, readRec>>
  /\ UNCHANGED <<alphaVars, mouseVars>>

KeyEsc ==
  /\ Released("ESCAPE", record_video)
  /\ record_video
  /\ ToggleRecording
  /\ UNCHANGED <<branch, playVars, viewVars, video_idx, files, capVars, callHist,
                 cntHist, nenq, shots, frmHist, readRec>>
  /\ UNCHANGED <<alphaVars, mouseVars>>

\* join() returns once the worker has exited; then _video_idx += 1 (line 423).
JoinReturnsEarly ==
  /\ pc = "join"
  /\ video_idx' = video_idx + 1
  /\ pc' = "poll"
  /\ UNCHANGED <<branch, playVars, viewVars, record_video, queue, worker, files,
                 capVars, callHist, keyHist, cntHist, vidHist, shots, frmHist,
                 readRec>>
  /\ UNCHANGED <<alphaVars, mouseVars>>
KeyVJoin ==
  /\ pc = "join"
  /\ worker.state = "exited"
  /\ video_idx' = video_idx + 1
  /\ pc' = "poll"
  /\ UNCHANGED <<branch, playVars, viewVars, record_video, queue, worker, files,
                 capVars, callHist, keyHist, cntHist, vidHist, shots, frmHist,
                 readRec>>
  /\ UNCHANGED <<alphaVars, mouseVars>>

\* T (lines 424-427).
KeyTNoIncrement ==
  /\ Released("T", image_idx)
  /\ LET r == ReadPixels(offctx, Window, hide_overlay)
     IN /\ offctx' = r.after
        /\ readRec' = r
        /\ lastFrame' = r.img
  /\ Len(shots) < MaxImages
  /\ shots' = Append(shots, ImagePath(image_idx))
  /\ UNCHANGED <<ctlVars, playVars, viewVars, vidVars, callHist, cntHist, vidHist,
                 winFrame, image_idx>>
  /\ UNCHANGED <<alphaVars, mouseVars>>
KeyT ==
  /\ Released("T", image_idx)
  /\ image_idx < MaxImages
  /\ LET r == ReadPixels(offctx, Window, hide_overlay)
     IN /\ offctx' = r.after
        /\ readRec' = r
        /\ lastFrame' = r.img
  /\ shots' = Append(shots, ImagePath(image_idx))
  /\ image_idx' = image_idx + 1
  /\ UNCHANGED <<ctlVars, playVars, viewVars, vidVars, callHist, cntHist, vidHist,
                 winFrame>>
  /\ UNCHANGED <<alphaVars, mouseVars>>

\* S (lines 435-436).
KeyS ==
  /\ Released("S", run_speed)
  /\ net > -MaxNet
  /\ run_speed' = Half(run_speed)
  /\ net' = net - 1
  /\ UNCHANGED <<ctlVars, paused, advance, loop_count, render_every_frame, viewVars,
                 vidVars, capVars, callHist, rightCount, stepCount, absorbed,
                 vidHist, shots, frmHist, readRec>>
  /\ UNCHANGED <<alphaVars, mouseVars>>

\* F (lines 437-438).
KeyF ==
  /\ Released("F", run_speed)
  /\ net < MaxNet
  /\ run_speed' = Twice(run_speed)
  /\ net' = net + 1
  /\ UNCHANGED <<ctlVars, paused, advance, loop_count, render_every_frame, viewVars,
                 vidVars, capVars, callHist, rightCount, stepCount, absorbed,
                 vidHist, shots, frmHist, readRec>>
  /\ UNCHANGED <<alphaVars, mouseVars>>

\* D (lines 442-443).
KeyD ==
  /\ Released("D", render_every_frame)
  /\ render_every_frame' = ~render_every_frame
  /\ UNCHANGED <<ctlVars, paused, advance, loop_count, run_speed, viewVars, vidVars,
                 capVars, callHist, cntHist, vidHist, shots, frmHist, readRec>>
  /\ UNCHANGED <<alphaVars, mouseVars>>

\* R (lines 449-454): every geom's alpha is divided by 5 when _transparent
\* becomes True and multiplied by 5 when it becomes False.
KeyR ==
  /\ Released("R", transparent)
  /\ rCount < MaxToggles
  /\ transparent' = ~transparent
  /\ geom_alpha' = [g \in DOMAIN geom_alpha |->
                      IF ~transparent THEN Div5(geom_alpha[g]) ELSE Mul5(geom_alpha[g])]
  /\ rCount' = rCount + 1
  /\ UNCHANGED <<ctlVars, playVars, viewVars, vidVars, capVars, callHist, cntHist,
                 vidHist, shots, frmHist, readRec>>
  /\ UNCHANGED <<show_mocap, geom_mocap, extras, alpha0, mCount, mouseVars>>

\* M (lines 455-468): for every geom of a mocap body, hiding stores the alpha
\* in sim.extras and sets it to 0, showing sets it to what sim.extras holds.
\* _show_mocap starts True, so a geom's entry is stored before it is read.
KeyM ==
  /\ Released("M", show_mocap)
  /\ mCount < MaxToggles
  /\ show_mocap' = ~show_mocap
  /\ IF show_mocap
       THEN /\ extras' = [g \in DOMAIN geom_alpha |->
                            IF geom_mocap[g] THEN [set |-> TRUE, val |-> geom_alpha[g]]
                                             ELSE extras[g]]
            /\ geom_alpha' = [g \in DOMAIN geom_alpha |->
                                IF geom_mocap[g] THEN AZero ELSE geom_alpha[g]]
       ELSE /\ geom_alpha' = [g \in DOMAIN geom_alpha |->
                                IF geom_mocap[g] THEN extras[g].val ELSE geom_alpha[g]]
            /\ UNCHANGED extras
  /\ mCount' = mCount + 1
  /\ UNCHANGED <<ctlVars, playVars, viewVars, vidVars, capVars, callHist, cntHist,
                 vidHist, shots, frmHist, readRec>>
  /\ UNCHANGED <<transparent, geom_mocap, alpha0, rCount, mouseVars>>

\* ---------------------------------------------------------- mouse callbacks
\* _cursor_pos_callback (lines 68-92), dispatched by poll_events: nothing
\* happens unless a button is recorded as pressed; otherwise move_camera is
\* called with the action and the distance from the last position, and the
\* last position becomes the scaled cursor position.  shift is what
\* glfw.get_key reports for the two shift keys.  move_camera receives dx and
\* dy divided by the framebuffer height; camReq keeps them undivided.
CursorPos ==
  /\ pc = "poll"
  /\ \E x \in Positions, y \in Positions, shift \in BOOLEAN :
       /\ mouseEvt' = [kind |-> "cursor", x |-> x, y |-> y, shift |-> shift,
                       lx |-> last_mouse_x, ly |-> last_mouse_y]
       /\ IF ~(button_left_pressed \/ button_right_pressed)
            THEN /\ camReq' = NoReq
                 /\ UNCHANGED <<last_mouse_x, last_mouse_y>>
            ELSE /\ camReq' = [action |-> MouseAction(button_left_pressed,
                                                      button_right_pressed, shift),
                               dx |-> Scaled(scale, x) - last_mouse_x,
                               dy |-> Scaled(scale, y) - last_mouse_y]
                 /\ last_mouse_x' = Scaled(scale, x)
                 /\ last_mouse_y' = Scaled(scale, y)
  /\ UNCHANGED <<button_left_pressed, button_right_pressed, scale>>
  /\ UNCHANGED <<ctlVars, playVars, viewVars, vidVars, capVars, callHist, keyHist,
                 cntHist, vidHist, shots, frmHist, readRec, alphaVars>>

\* _mouse_button_callback (lines 94-102): both flags are read from glfw, and
\* the last position is set to the scaled cursor position.
MouseButton ==
  /\ pc = "poll"
  /\ \E left \in BOOLEAN, right \in BOOLEAN, x \in Positions, y \in Positions :
       /\ button_left_pressed' = left
       /\ button_right_pressed' = right
       /\ last_mouse_x' = Scaled(scale, x)
       /\ last_mouse_y' = Scaled(scale, y)
       /\ mouseEvt' = [kind |-> "button", x |-> x, y |-> y, shift |-> FALSE,
                       lx |-> last_mouse_x, ly |-> last_mouse_y]
  /\ camReq' = NoReq
  /\ UNCHANGED scale
  /\ UNCHANGED <<ctlVars, playVars, viewVars, vidVars, capVars, callHist, keyHist,
                 cntHist, vidHist, shots, frmHist, readRec, alphaVars>>

\* _scroll_callback (lines 104-106): move_camera(MOUSE_ZOOM, 0, -0.05 * y_offset);
\* camReq keeps dy in units of 0.05.
Scroll ==
  /\ pc = "poll"
  /\ \E yoff \in ScrollOffsets :
       /\ camReq' = [action |-> "ZOOM", dx |-> 0, dy |-> -yoff]
       /\ mouseEvt' = [kind |-> "scroll", x |-> 0, y |-> yoff, shift |-> FALSE,
                       lx |-> last_mouse_x, ly |-> last_mouse_y]
  /\ UNCHANGED <<button_left_pressed, button_right_pressed, last_mouse_x,
                 last_mouse_y, scale>>
  /\ UNCHANGED <<ctlVars, playVars, viewVars, vidVars, capVars, callHist, keyHist,
                 cntHist, vidHist, shots, frmHist, readRec, alphaVars>>

\* -------------------------------------------------------------- save_video
\* The worker process, forked by Process.start() (lines 555-562).
\* Line 556: the writer opens the file.
WorkerOpen ==
  /\ worker.state = "start"
  /\ files' = [p \in DOMAIN files \cup {worker.path} |->
                 IF p = worker.path THEN [frames |-> <<>>, closed |-> FALSE]
                                    ELSE files[p]]
  /\ worker' = [worker EXCEPT !.state = "run"]
  /\ UNCHANGED <<ctlVars, playVars, viewVars, record_video, video_idx, queue,
                 capVars, callHist, keyHist, cntHist, vidHist, shots, frmHist,
                 readRec>>
  /\ UNCHANGED <<alphaVars, mouseVars>>

\* Lines 558-561: one frame is taken off the queue and appended, or the None
\* sentinel ends the loop.
WorkerGet ==
  /\ worker.state = "run"
  /\ queue # <<>>
  /\ queue' = Tail(queue)
  /\ IF Head(queue).kind = "None"
       THEN /\ worker' = [worker EXCEPT !.state = "closing"]
            /\ UNCHANGED files
       ELSE /\ files' = [files EXCEPT ![worker.path].frames = Append(@, Head(queue).id)]
            /\ UNCHANGED worker
  /\ UNCHANGED <<ctlVars, playVars, viewVars, record_video, video_idx, capVars,
                 callHist, keyHist, cntHist, vidHist, shots, frmHist, readRec>>
  /\ UNCHANGED <<alphaVars, mouseVars>>

\* Line 562: writer.close(); the process exits.
WorkerClose ==
  /\ worker.state = "closing"
  /\ files' = [files EXCEPT ![worker.path].closed = TRUE]
  /\ worker' = [worker EXCEPT !.state = "exited"]
  /\ UNCHANGED <<ctlVars, playVars, viewVars, record_video, video_idx, queue,
                 capVars, callHist, keyHist, cntHist, vidHist, shots, frmHist,
                 readRec>>
  /\ UNCHANGED <<alphaVars, mouseVars>>

\* ---------------------------------------------------------- specifications
\* One specification per group of key bindings: each runs render() and
\* dispatches, from poll_events, the keys that act on the state its
\* properties read.
\* The user's main loop calls render() with one overlay line, one marker and
\* one frame's worth of time.
CallOne == CallRender(AddOverlay(EmptyOverlay, "TOPLEFT", "user"), <<"m">>, LoopUnit)

\* Recording and capturing: V, ESC, T, SPACE and the worker.
InitVideo == Init /\ ncam = 0 /\ ~display_all_text /\ PlainSim
NextVideo ==
  \/ CallOne \/ RenderFrame \/ AfterPoll
  \/ KeyV \/ KeyEsc \/ KeyVJoin \/ KeyT \/ KeySpace
  \/ WorkerOpen \/ WorkerGet \/ WorkerClose
SpecVideo == InitVideo /\ [][NextVideo]_vars

\* Pausing and stepping: SPACE, RIGHT, D.  The user's main loop calls
\* render() after any amount of simulated time.
InitPlay == Init /\ ncam = 0 /\ ~display_all_text /\ ~offctx.exists /\ PlainSim
CallPlay == \E inc \in Incs : CallRender(EmptyOverlay, <<>>, inc)
NextPlay ==
  \/ CallPlay \/ RenderFrame \/ AfterPoll
  \/ KeySpace \/ KeyRight \/ KeyD
SpecPlay == InitPlay /\ [][NextPlay]_vars

\* Cameras, overlay and screenshots: TAB, H, T.  The user's main loop calls
\* render() with some overlay and some markers.
CallView == \E ov \in UserOverlays, mk \in UserMarkers : CallRender(ov, mk, LoopUnit)
NextView ==
  \/ CallView \/ RenderFrame \/ AfterPoll
  \/ KeyTab \/ KeyH \/ KeyT
InitView == Init /\ PlainSim
SpecView == InitView /\ [][NextView]_vars

\* Hiding the overlay while capturing: H, T, V, ESC and the worker.
InitOverlay == Init /\ ncam = 0 /\ PlainSim
NextOverlay ==
  \/ CallOne \/ RenderFrame \/ AfterPoll
  \/ KeyH \/ KeyT \/ KeyV \/ KeyEsc \/ KeyVJoin
  \/ WorkerOpen \/ WorkerGet \/ WorkerClose
SpecOverlay == InitOverlay /\ [][NextOverlay]_vars

\* Playback speed: S, F, D.
NextSpeed ==
  \/ CallOne \/ RenderFrame \/ AfterPoll
  \/ KeyS \/ KeyF \/ KeyD
SpecSpeed == InitPlay /\ [][NextSpeed]_vars

\* Geom visibility: R, M.
InitAlpha == Init /\ ncam = 0 /\ ~display_all_text /\ ~offctx.exists /\ scale = 1
NextAlpha ==
  \/ CallOne \/ RenderFrame \/ AfterPoll
  \/ KeyR \/ KeyM
SpecAlpha == InitAlpha /\ [][NextAlpha]_vars

\* The mouse: cursor moves, buttons, scrolling.
InitMouse == Init /\ ncam = 0 /\ ~display_all_text /\ ~offctx.exists /\ geom_alpha = <<>>
NextMouse ==
  \/ CallOne \/ RenderFrame \/ AfterPoll
  \/ CursorPos \/ MouseButton \/ Scroll
SpecMouse == InitMouse /\ [][NextMouse]_vars

\* The same, with the scheduling the operating system gives the worker
\* process and the joining main thread: neither waits forever while it can run.
FairSpecVideo ==
  /\ SpecVideo
  /\ WF_vars(WorkerOpen) /\ WF_vars(WorkerGet) /\ WF_vars(WorkerClose)
  /\ WF_vars(KeyVJoin)

\* ------------------------------------------------------------- properties
IsPrefix(s, t) == Len(s) <= Len(t) /\ \A i \in 1 .. Len(s) : s[i] = t[i]
NoDuplicates(s) == \A i, j \in 1 .. Len(s) : i # j => s[i] # s[j]
RecPaths == [i \in 1 .. Len(recs) |-> recs[i].path]
FileOf(i) == files[recs[i].path]

\* C1: every recording's file receives exactly the frames enqueued during that
\* recording, in the order they were enqueued, and is closed only after the
\* last of them; no file holds a frame of another recording.  Stated on every
\* reachable state: the file of a recording is always a prefix of what was
\* enqueued for it, a closed file holds all of it, an earlier recording's file
\* is complete and closed before the next recording starts, and the running
\* worker writes to the file of the current recording.
C1_FramesFifoToOwnFile ==
  /\ \A i \in 1 .. Len(recs) :
       /\ recs[i].path \in DOMAIN files =>
            /\ IsPrefix(FileOf(i).frames, recs[i].enq)
            /\ FileOf(i).closed => (recs[i].stopped /\ FileOf(i).frames = recs[i].enq)
       /\ i < Len(recs) =>
            /\ recs[i].path \in DOMAIN files
            /\ FileOf(i).closed
       /\ \A j \in 1 .. Len(recs) : \A k \in 1 .. Len(recs[j].enq) :
            (i # j /\ recs[i].path \in DOMAIN files) =>
               \A m \in 1 .. Len(FileOf(i).frames) : FileOf(i).frames[m] # recs[j].enq[k]
  /\ worker.state \in {"start", "run", "closing"} =>
       (recs # <<>> /\ worker.path = recs[Len(recs)].path)

\* C1 witness: two recordings, the second of at least two frames, both files
\* written completely and closed.
C1_Witness ==
  /\ Len(recs) = 2
  /\ Len(recs[1].enq) >= 1 /\ Len(recs[2].enq) >= 2
  /\ \A i \in 1 .. 2 : recs[i].path \in DOMAIN files /\ FileOf(i).closed
  /\ FileOf(2).frames = recs[2].enq

\* C2: stopping a recording enqueues the None sentinel behind every frame; the
\* worker then drains the queue, closes the writer and exits, join() returns,
\* and only then is _video_idx incremented, by exactly 1.
C2_StopTerminatesWorker ==
  /\ [](\A i \in 1 .. Len(queue) : queue[i].kind = "None" => i = Len(queue))
  /\ [][video_idx' # video_idx =>
          /\ pc = "join" /\ worker.state = "exited" /\ queue = <<>>
          /\ files[worker.path].closed
          /\ video_idx' = video_idx + 1]_vars
  /\ \A k \in 0 .. MaxVideos :
       (pc = "join" /\ video_idx = k) ~> (pc # "join" /\ video_idx = k + 1)

\* C2 witness: a recording of at least one frame was stopped and joined.
C2_Witness ==
  /\ video_idx = 1 /\ pc = "poll" /\ worker.state = "exited"
  /\ Len(recs) = 1 /\ Len(recs[1].enq) >= 1

\* C6: a call of _read_pixels_as_in_window renders off-screen with the window
\* context's markers, overlay and camera, leaves the off-screen context's
\* markers, overlay and camera as they were before the call, and leaves the
\* window context's unchanged.
C6_ReadPixelsTransparent ==
  readRec.valid =>
    /\ readRec.during.markers = readRec.winBefore.markers
    /\ readRec.during.overlay = readRec.winBefore.overlay
    /\ readRec.during.cam = readRec.winBefore.cam
    /\ readRec.img.markers = readRec.winBefore.markers
    /\ readRec.img.overlay = readRec.winBefore.overlay
    /\ readRec.img.cam = readRec.winBefore.cam
    /\ readRec.before.exists => readRec.after = readRec.before
    /\ readRec.winAfter = readRec.winBefore
    /\ offctx = readRec.after

\* C6 witness: a call made while the off-screen context's markers, overlay
\* and camera all differ from the window's.
C6_Witness ==
  /\ readRec.valid /\ readRec.before.exists
  /\ readRec.before.markers # readRec.winBefore.markers
  /\ readRec.before.overlay # readRec.winBefore.overlay
  /\ readRec.before.cam # readRec.winBefore.cam
  /\ readRec.winBefore.markers # <<>>

\* C7: screenshot number i is written to the path of _image_idx = i, which
\* is then incremented; a recording is written to the path of the _video_idx
\* at its start, which is incremented once when it stops; so no two
\* screenshots share a path and no two recordings share a path.
C7_CapturesNeverOverwrite ==
  /\ NoDuplicates(shots)
  /\ NoDuplicates(RecPaths)
  /\ image_idx = Len(shots)
  /\ video_idx = Cardinality({i \in 1 .. Len(recs) : recs[i].stopped})
                   - (IF pc = "join" THEN 1 ELSE 0)

\* C7 witness: two screenshots and two recordings.
C7_Witness == Len(shots) = 2 /\ Len(recs) = 2 /\ video_idx = 2

Pending == IF advance THEN 1 ELSE 0
Contains(seq, x) == \E i \in 1 .. Len(seq) : seq[i] = x

\* C3: each SPACE release negates _paused; a render() call that starts paused
\* returns only when _paused has become False or a single step was consumed;
\* a render() call that starts unpaused returns after finitely many frames
\* (_loop_count falls by one per frame from its value at the loop's start,
\* and the call is not left by an exception).
C3_SpacePausesRender ==
  /\ lastKey = "SPACE" => paused = ~prevVal
  /\ (pc = "caller" /\ retVia # "none" /\ startPaused) =>
       /\ callFrames >= 1
       /\ retVia = "step" \/ (retVia = "unpaused" /\ ~paused)
  /\ (branch = "unpaused" /\ pc \in {"loop", "poll"}) =>
       /\ loop_count > 0
       /\ loop_count = startCount - (callFrames - (IF pc = "poll" THEN 1 ELSE 0)) * LoopUnit
  /\ pc # "raised"

\* C4 as stated: k RIGHT releases let exactly k paused render() calls return,
\* so the steps taken and the step pending always add up to the releases.
C4_EveryRightIsOneStep ==
  /\ lastKey = "RIGHT" => paused
  /\ stepCount + Pending = rightCount

\* C4 as amended: every RIGHT release leaves the viewer paused with
\* _advance_by_one_step set; the flag holds one step, so a release that finds
\* it set is absorbed; every other release lets exactly one render() call in
\* the paused loop return, after at least one frame and with the flag reset,
\* and a paused call returns in no other way while the viewer stays paused.
C4_RightStepsOnceWhenNoStepPending ==
  /\ lastKey = "RIGHT" => paused
  /\ (lastKey = "RIGHT" /\ pc = "poll") => advance
  /\ stepCount + Pending = rightCount - absorbed
  /\ (pc = "caller" /\ retVia = "step") => (startPaused /\ ~advance /\ callFrames >= 1)
  /\ (pc = "caller" /\ retVia # "none" /\ startPaused /\ paused) => retVia = "step"

\* C4 witness: three RIGHT releases of which one was absorbed, two steps
\* taken, and the viewer blocked again in the paused loop.
C4_Witness ==
  /\ rightCount = 3 /\ absorbed = 1 /\ stepCount = 2
  /\ branch = "paused" /\ pc = "poll" /\ paused /\ ~advance /\ callFrames >= 2

\* C5: TAB visits the fixed cameras 0 .. ncam-1 in order and then the free
\* camera again; fixedcamid stays in -1 .. ncam-1 and the camera type is FREE
\* exactly when fixedcamid = -1.
C5_TabCyclesCameras ==
  /\ cam.fixedcamid \in -1 .. (ncam - 1)
  /\ cam.type \in {"FREE", "FIXED"}
  /\ cam.type = "FREE" <=> cam.fixedcamid = -1
  /\ lastKey = "TAB" =>
       cam.fixedcamid = (IF prevVal.fixedcamid = ncam - 1 THEN -1
                                                          ELSE prevVal.fixedcamid + 1)

\* C5 witness: with two cameras, the TAB release that returns from the last
\* fixed camera to the free camera.
C5_Witness ==
  /\ ncam = 2 /\ lastKey = "TAB" /\ prevVal.fixedcamid = 1 /\ cam = FreeCam

ShowsUserAndBuiltin(f) ==
  /\ \A g \in GridPos : IsPrefix(user_overlay[g], f.overlay[g])
  /\ Contains(f.overlay["TOPLEFT"], "keys")
  /\ Contains(f.overlay["TOPRIGHT"], "status")

\* C8 as stated: each H release negates _hide_overlay, and every frame
\* rendered (to the window or off-screen) while _hide_overlay is True has an
\* empty overlay, while every frame rendered while it is False shows the
\* user's overlay entries and the built-in lines.
C8_EveryFrameFollowsHide ==
  /\ lastKey = "H" => hide_overlay = ~prevVal
  /\ (pc = "poll" /\ lastFrame.target # "none") =>
       IF lastFrame.hidden THEN lastFrame.overlay = EmptyOverlay
                           ELSE ShowsUserAndBuiltin(lastFrame)

\* C8 as amended: each H release negates _hide_overlay; every frame rendered
\* to the window while it is True has an empty overlay, and every frame
\* rendered to the window while it is False shows the user's overlay entries
\* of that call and the built-in lines; a frame read back off-screen (a
\* screenshot or a video frame) has the overlay of the window frame rendered
\* before it, whatever _hide_overlay has become since.
C8_WindowFramesFollowHide ==
  /\ lastKey = "H" => hide_overlay = ~prevVal
  /\ (pc = "poll" /\ winFrame.target # "none") =>
       IF winFrame.hidden THEN winFrame.overlay = EmptyOverlay
                          ELSE ShowsUserAndBuiltin(winFrame)
  /\ lastFrame.target = "offscreen" => lastFrame.overlay = winFrame.overlay

\* C8 witness: while recording, a window frame was rendered hidden although
\* the user supplied overlay text, and its video frame was read back.
C8_Witness ==
  /\ winFrame.target = "window" /\ winFrame.hidden /\ winFrame.overlay = EmptyOverlay
  /\ user_overlay # EmptyOverlay
  /\ record_video /\ lastFrame.target = "offscreen" /\ lastFrame.hidden
  /\ nenq >= 2

\* C9: _run_speed is 2^(F releases - S releases), hence strictly positive,
\* and an S release followed by an F release, or the reverse, restores it.
C9_RunSpeedIsPowerOfTwo ==
  /\ run_speed = FPow(net)
  /\ Twice(Half(run_speed)) = run_speed
  /\ Half(Twice(run_speed)) = run_speed

\* C10: each D release negates _render_every_frame, and every render() call
\* that starts unpaused with _render_every_frame True renders exactly one
\* frame and returns with _loop_count = 0.
C10_RenderEveryFrameOneFrame ==
  /\ lastKey = "D" => render_every_frame = ~prevVal
  /\ (pc \in {"caller", "raised"} /\ retVia # "none" /\ ~startPaused /\ startREF) =>
       (pc = "caller" /\ callFrames = 1 /\ loop_count = 0)

\* C11: R and M undo themselves: whenever R has been released an even number
\* of times and M an even number of times, every geom, mocap or not, has the
\* alpha it had before the releases.
C11_EvenTogglesRestoreAlpha ==
  (rCount % 2 = 0 /\ mCount % 2 = 0) => geom_alpha = alpha0

\* n is int(v / PosUnit): the integer part of the scaled coordinate v / PosUnit.
IsIntPart(n, v) ==
  IF v >= 0 THEN v - PosUnit * n \in 0 .. PosUnit - 1
            ELSE PosUnit * n - v \in 0 .. PosUnit - 1

\* C12: a cursor-position event asks for a camera move exactly when the left
\* or the right button is recorded as pressed; the action is then MOVE when
\* the right button is pressed (also with the left) and ROTATE when only the
\* left is, the H variant with shift and the V variant without, and the last
\* mouse position is the scaled cursor position; with no button pressed
\* neither the camera nor the last mouse position changes; a scroll event
\* always asks for ZOOM.
C12_MouseMovesCamera ==
  /\ mouseEvt.kind = "cursor" =>
       LET pressed == button_left_pressed \/ button_right_pressed
           kind == IF button_right_pressed THEN "MOVE" ELSE "ROTATE"
           want == IF mouseEvt.shift
                     THEN (IF kind = "MOVE" THEN "MOVE_H" ELSE "ROTATE_H")
                     ELSE (IF kind = "MOVE" THEN "MOVE_V" ELSE "ROTATE_V")
       IN /\ (camReq # NoReq) <=> pressed
          /\ pressed => /\ camReq.action = want
                         /\ IsIntPart(last_mouse_x, scale * mouseEvt.x)
                         /\ IsIntPart(last_mouse_y, scale * mouseEvt.y)
                         /\ camReq.dx = last_mouse_x - mouseEvt.lx
                         /\ camReq.dy = last_mouse_y - mouseEvt.ly
          /\ ~pressed => /\ last_mouse_x = mouseEvt.lx
                          /\ last_mouse_y = mouseEvt.ly
  /\ mouseEvt.kind = "scroll" =>
       /\ camReq.action = "ZOOM"
       /\ last_mouse_x = mouseEvt.lx /\ last_mouse_y = mouseEvt.ly

\* C12 witness: with both buttons and shift held, a cursor move to the left of
\* the origin asked for MOVE_H over a non-zero distance.
C12_Witness ==
  /\ mouseEvt.kind = "cursor" /\ mouseEvt.shift
  /\ button_left_pressed /\ button_right_pressed
  /\ camReq.action = "MOVE_H" /\ camReq.dx # 0
  /\ mouseEvt.x < 0 /\ last_mouse_x < 0
====
